---- MODULE Spec2Model ----
(***************************************************************************)
(* The Context7 MCP server: the per-user context stack store and the       *)
(* handler handle_mcp_request that serves POST /mcp/{function_name}        *)
(* (context7_server.py).                                                   *)
(*                                                                         *)
(* Python values are written as strings: None is "null", a user id is its  *)
(* text, a context is the text of its JSON value, a context id is the      *)
(* string "ctx_" followed by hexadecimal digits.                           *)
(***************************************************************************)
EXTENDS Integers, Sequences, FiniteSets, TLC

\* ------------------------------------------------------------- bounds

\* The most contexts the store is allowed to hold, all users' stacks together.
MaxContexts == 3

\* The number of requests that may be in flight at once.
MaxSlots == 2

\* ------------------------------------------------------------- values

\* Python's None: a missing key read with dict.get, and JSON null.
None == "null"

Users == {"u1", "u2"}

\* The JSON values that Python's `not` takes for false, None among them:
\* "" is the empty string, and so on.
Falsy == {None, "", "{}", "[]", "0", "false"}

\* Context documents that are not empty.
Documents == {"{q:a}", "{q:b}"}

\* What str(uuid.uuid4())[:8] can yield: eight hexadecimal digits, 16^8
\* values in the program and two of them here.
ContextIds == {"ctx_0000000a", "ctx_0000000b"}

\* The branches of the handler with the last one, clear_contexts, left out.
FUNCTION_NAMES_SHORT ==
    {"push_context", "pop_context", "list_contexts", "get_context"}

FUNCTION_NAMES ==
    {"push_context", "pop_context", "list_contexts", "get_context", "clear_contexts"}

\* ------------------------------------------------------------- state

VARIABLES
    contexts,        \* user id -> (context id -> context)
    context_stacks,  \* user id -> sequence of context ids, the top last
    inflight,        \* slot -> the request whose body is awaited, or Idle
    last,            \* the request handled last, with its response
    minted,          \* history: user id -> the context ids push has returned
    pushed,          \* history: user id -> the (id, context) pairs pushed and
                     \*   neither popped nor cleared since, oldest first
    relayed          \* the request the relay handled last: what came in, what
                     \*   it sent upstream and what it answered

vars == <<contexts, context_stacks, inflight, last, minted, pushed, relayed>>

Slots == 1..MaxSlots

Idle == [fn |-> "idle"]

\* ------------------------------------------------------------- dicts

EmptyDict == [k \in {} |-> None]

\* d[k] = v
DictSet(d, k, v) == [x \in DOMAIN d \cup {k} |-> IF x = k THEN v ELSE d[x]]

\* d.get(k)
Get(d, k) == IF k \in DOMAIN d THEN d[k] ELSE None

\* d[k] when k is a key of d, and the empty dict when it is not
Get2(d, k) == IF k \in DOMAIN d THEN d[k] ELSE EmptyDict

\* d.pop(k, None): the dict that is left
DictPop(d, k) == [x \in DOMAIN d \ {k} |-> d[x]]

\* Python's truth value of x, as `not x` tests it.
Truthy(x) == x \notin Falsy

\* ------------------------------------------------------------- bodies

\* A request body: no bytes at all, bytes that are not JSON, JSON that is
\* not an object (a list), or a JSON object.
EmptyBody == [kind |-> "empty", params |-> EmptyDict]
InvalidBody == [kind |-> "invalid", params |-> EmptyDict]
\* Bytes that are not UTF-8, such as the single byte 0xff.
UndecodableBody == [kind |-> "undecodable", params |-> EmptyDict]
ListBody == [kind |-> "nonobject", params |-> EmptyDict]
ObjectBody(p) == [kind |-> "object", params |-> p]

Absent == "absent"

\* The JSON object with the given members; Absent leaves the member out.
Params(user_id, context, context_id) ==
    LET given == [user_id |-> user_id, context |-> context, context_id |-> context_id]
    IN [k \in {x \in DOMAIN given : given[x] # Absent} |-> given[k]]

\* json.loads(body) if body else {}, for a body that parses to an object.
Loads(body) == IF body.kind = "object" THEN body.params ELSE EmptyDict

\* ------------------------------------------------------------- envelopes

MissingUserId == [error |-> "user_id parameter is required"]
MissingContext == [error |-> "context parameter is required"]
\* MissingContextId with the message of the context check copied over.
MissingContextIdCopied == [error |-> "context parameter is required"]
MissingContextId == [error |-> "context_id parameter is required"]
\* EmptyStackError with the success member left out, as the handler's other
\* early returns leave it out.
EmptyStackErrorBare == [error |-> "No contexts to pop"]
EmptyStackError == [error |-> "No contexts to pop", success |-> FALSE]
\* A miss answered as a success with a null context.
NotFoundAsNull(user_id, context_id) ==
    [context_id |-> context_id, context |-> None, success |-> TRUE]
NotFoundError(user_id, context_id) ==
    [error |-> "Context with id " \o context_id \o " not found for user " \o user_id,
     success |-> FALSE]
UnsupportedFunctionError(function_name) ==
    [error |-> "Function " \o function_name \o " not supported"]
InvalidJsonError == [error |-> "Invalid JSON in request body"]
\* str(e) of the UnicodeDecodeError that json.loads raises on bytes that are
\* not UTF-8; it is not a JSONDecodeError.
UnicodeDecodeError ==
    [error |-> "'utf-8' codec can't decode byte 0xff in position 0: invalid start byte"]
\* str(e) of the AttributeError that parameters.get raises on a list
AttributeError == [error |-> "'list' object has no attribute 'get'"]

PushResult(context_id) == [context_id |-> context_id, success |-> TRUE]
PopResult(context_id, context) ==
    [context_id |-> context_id, context |-> context, success |-> TRUE]
ListResult(user_contexts) == [contexts |-> user_contexts]
GetResult(context_id, context) ==
    [context_id |-> context_id, context |-> context, success |-> TRUE]
ClearResult == [success |-> TRUE]

\* ------------------------------------------------------------- the store

\* if user_id not in contexts: contexts[user_id] = {}; then
\* contexts[user_id][context_id] = context_data
StoreContext(user_id, context_id, context_data) ==
    DictSet(contexts, user_id,
            DictSet(Get2(contexts, user_id), context_id, context_data))

\* if user_id not in contexts: context_stacks[user_id] = []; then
\* context_stacks[user_id].append(context_id)
AppendStack(user_id, context_id) ==
    DictSet(context_stacks, user_id,
            Append(IF user_id \notin DOMAIN contexts THEN <<>> ELSE context_stacks[user_id],
                   context_id))

\* How many identifiers the user's stack holds, 0 for a user with no stack.
StackLen(user_id) ==
    IF user_id \in DOMAIN context_stacks THEN Len(context_stacks[user_id]) ELSE 0

\* How many identifiers all the stacks hold together.
RECURSIVE SumStackLen(_)
SumStackLen(users) ==
    IF users = {} THEN 0
    ELSE LET u == CHOOSE x \in users : TRUE
         IN StackLen(u) + SumStackLen(users \ {u})
StoredContexts == SumStackLen(DOMAIN context_stacks)

\* user_id not in context_stacks or not context_stacks[user_id]
NothingToPop(user_id) ==
    \/ user_id \notin DOMAIN context_stacks
    \/ context_stacks[user_id] = <<>>

\* The identifier context_stacks[user_id].pop() returns: the last one.
StackTop(user_id) == context_stacks[user_id][Len(context_stacks[user_id])]

\* The stacks after context_stacks[user_id].pop().
PopStack(user_id) ==
    [context_stacks EXCEPT ![user_id] = SubSeq(@, 1, Len(@) - 1)]

\* What contexts[user_id].pop(context_id, None) returns.
PoppedContext(user_id, context_id) == Get(contexts[user_id], context_id)

\* The entries after contexts[user_id].pop(context_id, None).
PopEntry(user_id, context_id) ==
    [contexts EXCEPT ![user_id] = DictPop(@, context_id)]

\* The list list_contexts builds: one {context_id, context} per identifier
\* of the stack, in the stack's order.
ListContexts(user_id) ==
    IF user_id \in DOMAIN context_stacks
    THEN [i \in 1..Len(context_stacks[user_id]) |->
            [context_id |-> context_stacks[user_id][i],
             context |-> Get(contexts[user_id], context_stacks[user_id][i])]]
    ELSE <<>>

\* ContextMissing looking the identifier up in every user's entries.
ContextMissingAnywhere(user_id, context_id) ==
    \/ user_id \notin DOMAIN contexts
    \/ \A u \in DOMAIN contexts : context_id \notin DOMAIN contexts[u]

\* user_id not in contexts or context_id not in contexts[user_id]
ContextMissing(user_id, context_id) ==
    \/ user_id \notin DOMAIN contexts
    \/ context_id \notin DOMAIN contexts[user_id]

\* ClearedContexts deleting the user's key instead of emptying its entries.
ClearedContextsDeleted(user_id) == DictPop(contexts, user_id)

\* contexts after clear_contexts: contexts[user_id] = {} for a known user
ClearedContexts(user_id) ==
    IF user_id \in DOMAIN contexts
    THEN [contexts EXCEPT ![user_id] = EmptyDict]
    ELSE contexts

\* ClearedStacks with the reset of the stack forgotten.
ClearedStacksStale(user_id) == context_stacks

\* context_stacks after clear_contexts: context_stacks[user_id] = [] for a
\* user known to contexts
ClearedStacks(user_id) ==
    IF user_id \in DOMAIN contexts
    THEN [context_stacks EXCEPT ![user_id] = <<>>]
    ELSE context_stacks

\* ------------------------------------------------------------- the handler

\* The user a request names, None when it names none.
UserOf(body) == Get(Loads(body), "user_id")

\* The handler returns `response`; `last` records the request with it, and
\* what list_contexts would have returned for its user before it ran.
Return(function_name, body, response) ==
    last' = [fn |-> function_name, body |-> body, resp |-> response,
             before |-> ListContexts(UserOf(body))]

\* An early return: nothing has been written.
ReturnError(function_name, body, response) ==
    /\ Return(function_name, body, response)
    /\ UNCHANGED <<contexts, context_stacks, minted, pushed>>

\* push_context creating the user's state before it looks at the context.
push_context_eager(body) ==
    LET parameters == Loads(body)
        user_id == Get(parameters, "user_id")
        context_data == Get(parameters, "context")
    IN  IF ~Truthy(user_id) THEN ReturnError("push_context", body, MissingUserId)
        ELSE IF ~Truthy(context_data)
        THEN /\ contexts' = IF user_id \in DOMAIN contexts THEN contexts
                             ELSE DictSet(contexts, user_id, EmptyDict)
             /\ context_stacks' = IF user_id \in DOMAIN contexts THEN context_stacks
                                   ELSE DictSet(context_stacks, user_id, <<>>)
             /\ UNCHANGED <<minted, pushed>>
             /\ Return("push_context", body, MissingContext)
        ELSE \E context_id \in ContextIds :
                /\ StoredContexts < MaxContexts
                /\ contexts' = StoreContext(user_id, context_id, context_data)
                /\ context_stacks' = AppendStack(user_id, context_id)
                /\ minted' = [minted EXCEPT ![user_id] = @ \cup {context_id}]
                /\ pushed' = [pushed EXCEPT ![user_id] =
                                Append(@, [context_id |-> context_id, context |-> context_data])]
                /\ Return("push_context", body, PushResult(context_id))

push_context(body) ==
    LET parameters == Loads(body)
        user_id == Get(parameters, "user_id")
        context_data == Get(parameters, "context")
    IN  IF ~Truthy(user_id) THEN ReturnError("push_context", body, MissingUserId)
        ELSE IF ~Truthy(context_data) THEN ReturnError("push_context", body, MissingContext)
        ELSE \E context_id \in ContextIds :
                /\ StoredContexts < MaxContexts
                /\ contexts' = StoreContext(user_id, context_id, context_data)
                /\ context_stacks' = AppendStack(user_id, context_id)
                /\ minted' = [minted EXCEPT ![user_id] = @ \cup {context_id}]
                /\ pushed' = [pushed EXCEPT ![user_id] =
                                Append(@, [context_id |-> context_id, context |-> context_data])]
                /\ Return("push_context", body, PushResult(context_id))

\* pop_context telling a user it has never seen from a user with an empty
\* stack.
pop_context_unknown_user(body) ==
    LET parameters == Loads(body)
        user_id == Get(parameters, "user_id")
    IN  IF ~Truthy(user_id) THEN ReturnError("pop_context", body, MissingUserId)
        ELSE IF user_id \notin DOMAIN context_stacks
        THEN ReturnError("pop_context", body,
                         [error |-> "Unknown user " \o user_id, success |-> FALSE])
        ELSE IF NothingToPop(user_id) THEN ReturnError("pop_context", body, EmptyStackError)
        ELSE LET context_id == StackTop(user_id)
                 popped_context == PoppedContext(user_id, context_id)
             IN  /\ context_stacks' = PopStack(user_id)
                 /\ contexts' = PopEntry(user_id, context_id)
                 /\ pushed' = [pushed EXCEPT ![user_id] = SubSeq(@, 1, Len(@) - 1)]
                 /\ UNCHANGED minted
                 /\ Return("pop_context", body, PopResult(context_id, popped_context))

\* pop_context forgetting a user whose last context it has popped.
pop_context_forgetting(body) ==
    LET parameters == Loads(body)
        user_id == Get(parameters, "user_id")
    IN  IF ~Truthy(user_id) THEN ReturnError("pop_context", body, MissingUserId)
        ELSE IF NothingToPop(user_id) THEN ReturnError("pop_context", body, EmptyStackError)
        ELSE LET context_id == StackTop(user_id)
                 popped_context == PoppedContext(user_id, context_id)
                 emptied == Len(context_stacks[user_id]) = 1
             IN  /\ context_stacks' = IF emptied THEN DictPop(context_stacks, user_id)
                                       ELSE PopStack(user_id)
                 /\ contexts' = IF emptied THEN DictPop(contexts, user_id)
                                 ELSE PopEntry(user_id, context_id)
                 /\ pushed' = [pushed EXCEPT ![user_id] = SubSeq(@, 1, Len(@) - 1)]
                 /\ UNCHANGED minted
                 /\ Return("pop_context", body, PopResult(context_id, popped_context))

pop_context(body) ==
    LET parameters == Loads(body)
        user_id == Get(parameters, "user_id")
    IN  IF ~Truthy(user_id) THEN ReturnError("pop_context", body, MissingUserId)
        ELSE IF NothingToPop(user_id) THEN ReturnError("pop_context", body, EmptyStackError)
        ELSE LET context_id == StackTop(user_id)
                 popped_context == PoppedContext(user_id, context_id)
             IN  /\ context_stacks' = PopStack(user_id)
                 /\ contexts' = PopEntry(user_id, context_id)
                 /\ pushed' = [pushed EXCEPT ![user_id] = SubSeq(@, 1, Len(@) - 1)]
                 /\ UNCHANGED minted
                 /\ Return("pop_context", body, PopResult(context_id, popped_context))

\* list_contexts reading the stack by popping it: the listing empties it.
list_contexts_draining(body) ==
    LET parameters == Loads(body)
        user_id == Get(parameters, "user_id")
    IN  IF ~Truthy(user_id) THEN ReturnError("list_contexts", body, MissingUserId)
        ELSE /\ Return("list_contexts", body, ListResult(ListContexts(user_id)))
             /\ context_stacks' = ClearedStacks(user_id)
             /\ UNCHANGED <<contexts, minted, pushed>>

list_contexts(body) ==
    LET parameters == Loads(body)
        user_id == Get(parameters, "user_id")
    IN  IF ~Truthy(user_id) THEN ReturnError("list_contexts", body, MissingUserId)
        ELSE /\ Return("list_contexts", body, ListResult(ListContexts(user_id)))
             /\ UNCHANGED <<contexts, context_stacks, minted, pushed>>

get_context(body) ==
    LET parameters == Loads(body)
        user_id == Get(parameters, "user_id")
        context_id == Get(parameters, "context_id")
    IN  IF ~Truthy(user_id) THEN ReturnError("get_context", body, MissingUserId)
        ELSE IF ~Truthy(context_id) THEN ReturnError("get_context", body, MissingContextId)
        ELSE IF ContextMissing(user_id, context_id)
        THEN ReturnError("get_context", body, NotFoundError(user_id, context_id))
        ELSE /\ Return("get_context", body,
                       GetResult(context_id, Get(contexts[user_id], context_id)))
             /\ UNCHANGED <<contexts, context_stacks, minted, pushed>>

clear_contexts(body) ==
    LET parameters == Loads(body)
        user_id == Get(parameters, "user_id")
    IN  IF ~Truthy(user_id) THEN ReturnError("clear_contexts", body, MissingUserId)
        ELSE /\ contexts' = ClearedContexts(user_id)
             /\ context_stacks' = ClearedStacks(user_id)
             /\ pushed' = [pushed EXCEPT ![user_id] = <<>>]
             /\ UNCHANGED minted
             /\ Return("clear_contexts", body, ClearResult)

\* handle_mcp_request once the body has arrived: parse it, branch on the
\* function name, return the result or the error.
handle_mcp_request(function_name, body) ==
    IF body.kind = "invalid"
    THEN ReturnError(function_name, body, InvalidJsonError)
    ELSE IF body.kind = "undecodable"
    THEN ReturnError(function_name, body, UnicodeDecodeError)
    ELSE IF function_name \notin FUNCTION_NAMES
    THEN ReturnError(function_name, body, UnsupportedFunctionError(function_name))
    ELSE IF body.kind = "nonobject"
    THEN ReturnError(function_name, body, AttributeError)
    ELSE CASE function_name = "push_context" -> push_context(body)
           [] function_name = "pop_context" -> pop_context(body)
           [] function_name = "list_contexts" -> list_contexts(body)
           [] function_name = "get_context" -> get_context(body)
           [] function_name = "clear_contexts" -> clear_contexts(body)

\* ------------------------------------------------------------- relay

\* The two relays: relay-update sends its own credential upstream.
RELAYS == {"context7-mcp-update", "context7-relay-update"}

UPSTREAM_URL == "https://context7-mcp.fly.dev"

\* A path is its decoded text cut into pieces, the characters "?" that split
\* a URL each a piece of their own; Join is the text.
RECURSIVE Join(_)
Join(pieces) == IF pieces = <<>> THEN "" ELSE Head(pieces) \o Join(Tail(pieces))

\* The header names a client may send, and the lower-case names the relay's
\* server hands to the handler.
Lower(name) ==
    CASE name \in {"Authorization", "AUTHORIZATION", "authorization"} -> "authorization"
      [] name \in {"Content-Type", "content-type"} -> "content-type"
      [] OTHER -> name

\* dict(request.headers): the headers of the request under their lower-case
\* names.
RequestHeaders(wire) ==
    [k \in {Lower(n) : n \in DOMAIN wire} |->
        wire[CHOOSE n \in DOMAIN wire : Lower(n) = k]]

\* The deletion of the capitalised key alone.
StripCapitalized(headers) ==
    [k \in DOMAIN headers \ {"Authorization"} |-> headers[k]]
\* del headers["authorization"]; del headers["Authorization"]
StripAuthorization(headers) ==
    [k \in DOMAIN headers \ {"authorization", "Authorization"} |-> headers[k]]

\* upstream_url = f"{UPSTREAM_URL}/mcp/{endpoint}": the decoded endpoint is
\* put into the URL as it is.
upstream_url(endpoint) == <<UPSTREAM_URL, "/mcp/">> \o endpoint

\* The credential client.post is given.
UpstreamAuth(relay) ==
    IF relay = "context7-relay-update" THEN "instabids:secure123password" ELSE None

\* The request client.post sends.
UpstreamRequest(relay, endpoint, body, wire) ==
    [url |-> upstream_url(endpoint),
     content |-> body,
     headers |-> StripAuthorization(RequestHeaders(wire)),
     auth |-> UpstreamAuth(relay)]

\* The path of a URL: what comes before its first "?".
RECURSIVE UrlPath(_)
UrlPath(url) ==
    IF url = <<>> \/ Head(url) = "?" THEN <<>> ELSE <<Head(url)>> \o UrlPath(Tail(url))

\* The function_name the core's route /mcp/{function_name} takes from the
\* URL the relay posts to.
UpstreamFunction(url) == Join(SubSeq(UrlPath(url), 3, Len(UrlPath(url))))

\* The function_name the route takes from a path a client sent encoded.
PathParameter(endpoint) == Join(endpoint)

CorsHeaders ==
    [k \in {"Access-Control-Allow-Origin", "Access-Control-Allow-Credentials"} |->
        IF k = "Access-Control-Allow-Origin" THEN "*" ELSE "false"]

ForwardingError == [error |-> "Error forwarding request"]

\* The envelope of the relay's last handler, with str(e) of the
\* UnicodeDecodeError json.loads raises while the body is logged.
UnexpectedError ==
    [error |-> "Unexpected error: 'utf-8' codec can't decode byte 0xff in position 0: invalid start byte"]

NotRelayed == [relay |-> "none"]

\* proxy with the upstream answering: the core handles the forwarded request
\* and the relay returns its status and JSON with the CORS headers.
ProxyForwarded(relay, endpoint, wire, body) ==
    LET upstream == UpstreamRequest(relay, endpoint, body, wire)
    IN  /\ body.kind # "undecodable"
        /\ handle_mcp_request(UpstreamFunction(upstream.url), upstream.content)
        /\ relayed' = [relay |-> relay, endpoint |-> endpoint, inbound |-> wire,
                       body |-> body, upstream |-> upstream, reached |-> TRUE,
                       raised |-> None,
                       status_code |-> 200, content |-> last'.resp,
                       headers |-> CorsHeaders]
        /\ UNCHANGED inflight

\* proxy with client.post raising httpx.RequestError: the core is not
\* reached and the relay answers 500.
ProxyFailed(relay, endpoint, wire, body) ==
    /\ body.kind # "undecodable"
    /\ relayed' = [relay |-> relay, endpoint |-> endpoint, inbound |-> wire,
                   body |-> body,
                   upstream |-> UpstreamRequest(relay, endpoint, body, wire),
                   reached |-> FALSE,
                   raised |-> "httpx.RequestError",
                   status_code |-> 500, content |-> ForwardingError,
                   headers |-> CorsHeaders]
    /\ UNCHANGED <<contexts, context_stacks, inflight, last, minted, pushed>>

\* proxy with a body that is not UTF-8: json.loads(body), called to log the
\* body, raises UnicodeDecodeError, which the JSONDecodeError handler around
\* it does not catch; nothing is sent upstream and the relay answers 500.
ProxyUnexpected(relay, endpoint, wire, body) ==
    /\ body.kind = "undecodable"
    /\ relayed' = [relay |-> relay, endpoint |-> endpoint, inbound |-> wire,
                   body |-> body,
                   upstream |-> None,
                   reached |-> FALSE,
                   raised |-> "UnicodeDecodeError",
                   status_code |-> 500, content |-> UnexpectedError,
                   headers |-> CorsHeaders]
    /\ UNCHANGED <<contexts, context_stacks, inflight, last, minted, pushed>>

\* ------------------------------------------------------------- requests

\* Well-formed calls of the five functions.
PushRequests ==
    {<<"push_context", ObjectBody(Params(u, d, Absent))>> : u \in Users, d \in Documents}
UserRequests ==
    {<<f, ObjectBody(Params(u, Absent, Absent))>> :
        f \in {"pop_context", "list_contexts", "clear_contexts"}, u \in Users}
GetRequests ==
    {<<"get_context", ObjectBody(Params(u, Absent, i))>> : u \in Users, i \in ContextIds}
ValidRequests == PushRequests \cup UserRequests \cup GetRequests

\* Calls with a member missing, null, empty or false, bodies that are empty,
\* not JSON or not an object, and a function the server does not have; with
\* them the well-formed calls for one user and one document.
UserInputs == {Absent, None, "", "u1"}
InputPushRequests ==
    {<<"push_context", ObjectBody(Params(u, c, Absent))>> :
        u \in UserInputs, c \in {Absent} \cup Falsy \cup {"{q:a}"}}
InputUserRequests ==
    {<<f, ObjectBody(Params(u, Absent, Absent))>> :
        f \in {"pop_context", "list_contexts", "clear_contexts"}, u \in UserInputs}
InputGetRequests ==
    {<<"get_context", ObjectBody(Params(u, Absent, i))>> :
        u \in UserInputs, i \in {Absent, None, ""} \cup ContextIds}
BodyRequests ==
    {<<f, b>> : f \in FUNCTION_NAMES \cup {"delete_context"},
                b \in {EmptyBody, InvalidBody, UndecodableBody, ListBody}}
OtherRequests ==
    {<<"delete_context", ObjectBody(Params(u, Absent, Absent))>> : u \in {Absent, "u1"}}
InputRequests ==
    InputPushRequests \cup InputUserRequests \cup InputGetRequests
        \cup BodyRequests \cup OtherRequests

\* ------------------------------------------------------------- behaviour

NoRequest == [fn |-> "none", body |-> EmptyBody, resp |-> [none |-> TRUE], before |-> <<>>]

Init ==
    /\ contexts = EmptyDict
    /\ context_stacks = EmptyDict
    /\ inflight = [r \in Slots |-> Idle]
    /\ last = NoRequest
    /\ minted = [u \in Users |-> {}]
    /\ pushed = [u \in Users |-> <<>>]
    /\ relayed = NotRelayed

\* A request served with no other request in between: its body arrives and
\* the handler runs to its return.
Request(function_name, body) ==
    /\ handle_mcp_request(function_name, body)
    /\ UNCHANGED <<inflight, relayed>>

\* body = await request.body(): the handler is suspended until the body has
\* arrived, and other requests run meanwhile.
Receive(r, function_name, body) ==
    /\ inflight[r] = Idle
    /\ inflight' = [inflight EXCEPT ![r] = [fn |-> function_name, body |-> body]]
    /\ UNCHANGED <<contexts, context_stacks, last, minted, pushed, relayed>>

\* Resume holding a request back until no other request is in flight.
ResumeAlone(r) ==
    /\ inflight[r] # Idle
    /\ \A s \in Slots \ {r} : inflight[s] = Idle
    /\ handle_mcp_request(inflight[r].fn, inflight[r].body)
    /\ inflight' = [inflight EXCEPT ![r] = Idle]
    /\ UNCHANGED relayed

\* The body has arrived: the rest of the handler runs without a further
\* await, so nothing runs in between.
Resume(r) ==
    /\ inflight[r] # Idle
    /\ handle_mcp_request(inflight[r].fn, inflight[r].body)
    /\ inflight' = [inflight EXCEPT ![r] = Idle]
    /\ UNCHANGED relayed

Next == \E req \in ValidRequests : Request(req[1], req[2])

Spec == Init /\ [][Next]_vars

\* The same server, sent every kind of request for one user.
NextInputs == \E req \in InputRequests : Request(req[1], req[2])

SpecInputs == Init /\ [][NextInputs]_vars

\* Concurrent push_context requests for one user, who is unknown or known
\* with an empty stack when they start.
InitPushes ==
    /\ \/ /\ contexts = EmptyDict
          /\ context_stacks = EmptyDict
          /\ minted = [u \in Users |-> {}]
       \/ /\ contexts = [u \in {"u1"} |-> EmptyDict]
          /\ context_stacks = [u \in {"u1"} |-> <<>>]
          /\ \E i \in ContextIds : minted = [u \in Users |-> IF u = "u1" THEN {i} ELSE {}]
    /\ inflight = [r \in Slots |-> Idle]
    /\ last = NoRequest
    /\ pushed = [u \in Users |-> <<>>]
    /\ relayed = NotRelayed

NextPushes ==
    \/ \E r \in Slots, req \in {q \in PushRequests : UserOf(q[2]) = "u1"} :
            Receive(r, req[1], req[2])
    \/ \E r \in Slots : Resume(r)

SpecPushes == InitPushes /\ [][NextPushes]_vars

\* Requests of one user interleaved: each is suspended while its body is
\* awaited.
ConcurrentRequests ==
    {req \in ValidRequests : UserOf(req[2]) = "u1" /\ Get(Loads(req[2]), "context") # "{q:b}"}

NextConcurrent ==
    \/ \E r \in Slots, req \in ConcurrentRequests : Receive(r, req[1], req[2])
    \/ \E r \in Slots : Resume(r)

SpecConcurrent == Init /\ [][NextConcurrent]_vars

\* The same interleaved requests with the event loop running every handler
\* whose body has arrived. A push_context is received only while the store
\* has room for it and for the pushes already in flight.
LiveRequests ==
    {req \in ConcurrentRequests : req[1] # "get_context"}

Room(function_name) ==
    function_name = "push_context"
        => StoredContexts
            + Cardinality({s \in Slots : inflight[s].fn = "push_context"})
                < MaxContexts

NextLive ==
    \/ \E r \in Slots, req \in LiveRequests :
            Room(req[1]) /\ Receive(r, req[1], req[2])
    \/ \E r \in Slots : Resume(r)

SpecLive ==
    /\ Init
    /\ [][NextLive]_vars
    /\ \A r \in Slots : WF_vars(Resume(r))

\* The relays in front of the server. The path after /proxy/ names one of the
\* five functions, a function the server does not have, or a name with a
\* "?" in it, which the client sent as %3F.
Endpoints ==
    {<<f>> : f \in FUNCTION_NAMES \cup {"delete_context"}}
        \cup {<<"push_context", "?", "x">>}
RelayBodies ==
    {ObjectBody(Params("u1", "{q:a}", Absent)),
     ObjectBody(Params("u1", Absent, "ctx_0000000a")),
     InvalidBody}
ContentType == [k \in {"Content-Type"} |-> "application/json"]
BearerHeaders ==
    [k \in {"Content-Type", "Authorization"} |->
        IF k = "Authorization" THEN "Bearer t1" ELSE "application/json"]
WireHeaders ==
    {ContentType}
        \cup {[k \in {"Content-Type", n} |->
                    IF k = n THEN t ELSE "application/json"] :
                n \in {"Authorization", "authorization", "AUTHORIZATION"},
                t \in {"Bearer t1", "Bearer t2"}}

\* Every path and body sent with a bearer token through either relay, and
\* a push body through either relay with the upstream unreachable, and a
\* body that is not UTF-8.
NextRelay ==
    \/ \E relay \in RELAYS, endpoint \in Endpoints, body \in RelayBodies :
            ProxyForwarded(relay, endpoint, BearerHeaders, body)
    \/ \E relay \in RELAYS, endpoint \in Endpoints :
            ProxyFailed(relay, endpoint, BearerHeaders,
                        ObjectBody(Params("u1", "{q:a}", Absent)))
    \/ \E relay \in RELAYS, endpoint \in Endpoints :
            ProxyUnexpected(relay, endpoint, BearerHeaders, UndecodableBody)

SpecRelay == Init /\ [][NextRelay]_vars

\* Pushes and pops sent through either relay with every choice of headers.
NextHeaders ==
    \/ \E relay \in RELAYS, f \in {"push_context", "pop_context"},
          wire \in WireHeaders :
            ProxyForwarded(relay, <<f>>, wire, ObjectBody(Params("u1", "{q:a}", Absent)))
    \/ \E relay \in RELAYS, f \in {"push_context", "pop_context"},
          wire \in WireHeaders :
            ProxyFailed(relay, <<f>>, wire, ObjectBody(Params("u1", "{q:a}", Absent)))

SpecHeaders == Init /\ [][NextHeaders]_vars

\* ------------------------------------------------------------- claims

\* The identifiers of a sequence of {context_id, context} records.
IdsOf(entries) == {entries[i].context_id : i \in 1..Len(entries)}

\* The response is a success envelope.
Succeeded(response) == "success" \in DOMAIN response /\ response.success

\* The request handled last was a call of function_name with a user id.
Called(function_name) ==
    /\ last.fn = function_name
    /\ last.body.kind = "object"
    /\ Truthy(UserOf(last.body))

\* C1: in every reachable state, each user's stack order holds exactly the
\* identifiers that are keys of that user's entries, and none of them twice.
C1_OrderMatchesEntries ==
    \A u \in DOMAIN context_stacks :
        /\ {context_stacks[u][i] : i \in 1..Len(context_stacks[u])} = DOMAIN contexts[u]
        /\ \A i, j \in 1..Len(context_stacks[u]) :
                context_stacks[u][i] = context_stacks[u][j] => i = j

\* C2: a successful push_context returns a context_id that no earlier push
\* for that user returned, popped and cleared identifiers included.
C2_IdentifiersNeverReused ==
    [][(Called("push_context")' /\ Succeeded(last'.resp))
        => last'.resp.context_id \notin minted[UserOf(last'.body)]]_vars

\* C3: a successful pop_context returns the identifier and context of the
\* most recently pushed entry that is neither popped nor cleared, and leaves
\* the user's entries, in their order, as they were without that top entry.
C3_PopReturnsTop ==
    [][\A u \in Users :
        (Called("pop_context")' /\ UserOf(last'.body) = u /\ Succeeded(last'.resp))
        => LET n == Len(pushed[u])
           IN  /\ n > 0
               /\ last'.resp.context_id = pushed[u][n].context_id
               /\ last'.resp.context = pushed[u][n].context
               /\ ListContexts(u)' = SubSeq(ListContexts(u), 1, Len(ListContexts(u)) - 1)
               /\ DOMAIN contexts'[u] = IdsOf(ListContexts(u)')]_vars

\* C4: list_contexts returns exactly the entries on the user's stack, each
\* identifier with the context it was pushed with, the oldest first.
C4_ListInPushOrder ==
    (Called("list_contexts") /\ "contexts" \in DOMAIN last.resp)
        => last.resp.contexts = pushed[UserOf(last.body)]

\* C5: a successful push_context followed at once by pop_context for the same
\* user: pop returns the context and the context_id of that push, and
\* list_contexts is again what it was before the push.
C5_PushThenPop ==
    [][\A u \in Users :
        (/\ Called("push_context") /\ Succeeded(last.resp)
         /\ UserOf(last.body) = u
         /\ Called("pop_context")'
         /\ UserOf(last'.body) = u)
        => /\ Succeeded(last'.resp)
           /\ last'.resp.context = last.body.params["context"]
           /\ last'.resp.context_id = last.resp.context_id
           /\ ListContexts(u)' = last.before]_vars

\* C6: push_context with a user id accepts every context that is not null:
\* it stores it under a new identifier and answers {context_id, success}.
C6_NonNullContextAccepted ==
    (Called("push_context") /\ Get(last.body.params, "context") # None)
        => /\ Succeeded(last.resp)
           /\ "context_id" \in DOMAIN last.resp
           /\ Get(Get2(contexts, UserOf(last.body)), last.resp.context_id)
                = last.body.params["context"]

\* C7: once concurrent push_context requests for one user have all completed,
\* list_contexts returns one entry per push, with distinct identifiers, every
\* pushed context once, and order and entries agree.
C7_ConcurrentPushes ==
    (\A r \in Slots : inflight[r] = Idle)
        => LET l == ListContexts("u1")
               m == Len(pushed["u1"])
           IN  /\ Len(l) = m
               /\ Cardinality(IdsOf(l)) = m
               /\ \A d \in Documents :
                    Cardinality({i \in 1..Len(l) : l[i].context = d})
                        = Cardinality({i \in 1..m : pushed["u1"][i].context = d})
               /\ "u1" \in DOMAIN contexts => DOMAIN contexts["u1"] = IdsOf(l)

\* C8: pop_context for a user never seen, or with an emptied stack, returns
\* {error: "No contexts to pop", success: false} and changes nothing.
C8_PopOnEmpty ==
    [][(Called("pop_context")' /\ StackLen(UserOf(last'.body)) = 0)
        => /\ last'.resp = [error |-> "No contexts to pop", success |-> FALSE]
           /\ UNCHANGED <<contexts, context_stacks>>]_vars

\* C8's case: a pop answered with the error for a user whose stack was emptied.
C8_Witness ==
    /\ Called("pop_context")
    /\ "error" \in DOMAIN last.resp
    /\ UserOf(last.body) \in DOMAIN context_stacks
    /\ context_stacks[UserOf(last.body)] = <<>>
    /\ minted[UserOf(last.body)] # {}

\* C9: get_context succeeds exactly when the identifier is on the user's
\* stack, at any position, and then returns the context it was pushed with.
C9_GetFindsStacked ==
    (Called("get_context") /\ Truthy(Get(last.body.params, "context_id")))
        => LET u == UserOf(last.body)
               id == last.body.params["context_id"]
           IN  /\ Succeeded(last.resp) <=> id \in IdsOf(pushed[u])
               /\ Succeeded(last.resp)
                    => \E i \in 1..Len(pushed[u]) :
                          /\ pushed[u][i].context_id = id
                          /\ pushed[u][i].context = last.resp.context
               /\ ~Succeeded(last.resp) => "error" \in DOMAIN last.resp

\* C10: clear_contexts reports success; afterwards list_contexts is empty;
\* clearing again changes nothing; clearing a user never seen changes nothing.
C10_ClearIdempotent ==
    [][\A u \in Users :
        (Called("clear_contexts")' /\ UserOf(last'.body) = u)
        => /\ last'.resp = [success |-> TRUE]
           /\ ListContexts(u)' = <<>>
           /\ ClearedContexts(u)' = contexts'
           /\ ClearedStacks(u)' = context_stacks'
           /\ u \notin DOMAIN contexts => UNCHANGED <<contexts, context_stacks>>]_vars

\* C10's case: a clear of a user that held contexts.
C10_Witness ==
    /\ Called("clear_contexts")
    /\ Succeeded(last.resp)
    /\ last.before # <<>>
    /\ ListContexts(UserOf(last.body)) = <<>>

\* C11: get_context and list_contexts never change the store: the entries
\* and the order of every user, and the set of known users, are the same
\* before and after the request, whether it succeeds or fails.
C11_ReadsDoNotMutate ==
    [][last'.fn \in {"get_context", "list_contexts"}
        => UNCHANGED <<contexts, context_stacks>>]_vars

\* C11's case: a list_contexts answered for a user that holds contexts.
C11_Witness ==
    /\ Called("list_contexts")
    /\ "contexts" \in DOMAIN last.resp
    /\ last.resp.contexts # <<>>
    /\ context_stacks[UserOf(last.body)] # <<>>

\* What the store holds for one user: whether the two maps know the user,
\* the user's entries and the user's order.
UserState(u) ==
    [known |-> u \in DOMAIN contexts,
     stacked |-> u \in DOMAIN context_stacks,
     entries |-> IF u \in DOMAIN contexts THEN contexts[u] ELSE EmptyDict,
     order |-> IF u \in DOMAIN context_stacks THEN context_stacks[u] ELSE <<>>]

\* The response to get_context, list_contexts or pop_context for user u with
\* parameters p, written from that user's state st alone.
OwnResponse(function_name, u, p, st) ==
    CASE function_name = "get_context" ->
            IF p["context_id"] \in DOMAIN st.entries
            THEN [context_id |-> p["context_id"], context |-> st.entries[p["context_id"]],
                  success |-> TRUE]
            ELSE [error |-> "Context with id " \o p["context_id"] \o " not found for user " \o u,
                  success |-> FALSE]
      [] function_name = "list_contexts" ->
            [contexts |-> [i \in 1..Len(st.order) |->
                [context_id |-> st.order[i],
                 context |-> IF st.order[i] \in DOMAIN st.entries
                             THEN st.entries[st.order[i]] ELSE "null"]]]
      [] function_name = "pop_context" ->
            IF st.order = <<>>
            THEN [error |-> "No contexts to pop", success |-> FALSE]
            ELSE [context_id |-> st.order[Len(st.order)],
                  context |-> IF st.order[Len(st.order)] \in DOMAIN st.entries
                              THEN st.entries[st.order[Len(st.order)]] ELSE "null",
                  success |-> TRUE]

\* C12: a request for user u leaves the entries and the order of every other
\* user unchanged, and the response to get_context, list_contexts and
\* pop_context for u is decided by u's own state: an identifier that exists
\* only under another user is not found.
C12_UsersIndependent ==
    [][\A u \in Users :
        (last'.fn \in FUNCTION_NAMES /\ last'.body.kind = "object" /\ UserOf(last'.body) = u)
        => /\ \A v \in Users \ {u} : UserState(v)' = UserState(v)
           /\ last'.fn \in {"get_context", "list_contexts", "pop_context"}
                => last'.resp = OwnResponse(last'.fn, u, last'.body.params, UserState(u))]_vars

\* C12's case: get_context not finding an identifier another user holds.
C12_Witness ==
    /\ Called("get_context")
    /\ ~Succeeded(last.resp)
    /\ \E v \in DOMAIN contexts \ {UserOf(last.body)} :
            last.body.params["context_id"] \in DOMAIN contexts[v]

\* The response to a request for a user with nothing on the stack, written
\* without asking whether the store has seen the user.
EmptyUserResponse(function_name, u, p) ==
    CASE function_name = "pop_context" -> [error |-> "No contexts to pop", success |-> FALSE]
      [] function_name = "list_contexts" -> [contexts |-> <<>>]
      [] function_name = "get_context" ->
            [error |-> "Context with id " \o p["context_id"] \o " not found for user " \o u,
             success |-> FALSE]
      [] function_name = "clear_contexts" -> [success |-> TRUE]

\* C13: a user never seen and a user whose stack has been emptied get the
\* same response to pop_context, list_contexts, get_context and
\* clear_contexts with the same parameters.
C13_UnknownLikeEmpty ==
    [][\A u \in Users :
        (/\ last'.fn \in {"pop_context", "list_contexts", "get_context", "clear_contexts"}
         /\ last'.body.kind = "object"
         /\ UserOf(last'.body) = u
         /\ StackLen(u) = 0)
        => last'.resp = EmptyUserResponse(last'.fn, u, last'.body.params)]_vars

\* C13's case: a pop answered for a user the store knows, with its stack
\* emptied, while the other user has never been seen.
C13_Witness ==
    /\ Called("pop_context")
    /\ UserOf(last.body) \in DOMAIN context_stacks
    /\ context_stacks[UserOf(last.body)] = <<>>
    /\ last.before = <<>>
    /\ DOMAIN contexts # Users

\* C14: the handler serves exactly push_context, pop_context, list_contexts,
\* get_context and clear_contexts; a request that parses and names any other
\* function gets the error envelope naming that function, and the store is
\* left unchanged.
C14_OnlyFiveFunctions ==
    [][last'.body.kind \notin {"invalid", "undecodable"}
        => IF last'.fn \in {"push_context", "pop_context", "list_contexts",
                            "get_context", "clear_contexts"}
           THEN last'.resp # [error |-> "Function " \o last'.fn \o " not supported"]
           ELSE /\ last'.resp = [error |-> "Function " \o last'.fn \o " not supported"]
                /\ UNCHANGED <<contexts, context_stacks>>]_vars

\* C14's case: a function the server does not have, called with a user id
\* while the store holds contexts.
C14_Witness ==
    /\ last.fn = "delete_context"
    /\ last.body.kind = "object"
    /\ "error" \in DOMAIN last.resp
    /\ StoredContexts > 0

\* The member k of the parameters p is missing, null or the empty string.
MissingOrEmpty(p, k) == k \notin DOMAIN p \/ p[k] \in {"null", ""}

\* C15: for each of the five functions a missing or empty required parameter
\* yields the error envelope naming it (user_id for all, context for
\* push_context, context_id for get_context) with the store untouched, and
\* user_id is named when it is missing together with another one.
C15_MissingParameter ==
    [][(/\ last'.fn \in {"push_context", "pop_context", "list_contexts",
                         "get_context", "clear_contexts"}
        /\ last'.body.kind \in {"object", "empty"})
        => LET p == last'.body.params
           IN  IF MissingOrEmpty(p, "user_id")
               THEN /\ last'.resp = [error |-> "user_id parameter is required"]
                    /\ UNCHANGED <<contexts, context_stacks>>
               ELSE IF last'.fn = "push_context" /\ MissingOrEmpty(p, "context")
               THEN /\ last'.resp = [error |-> "context parameter is required"]
                    /\ UNCHANGED <<contexts, context_stacks>>
               ELSE IF last'.fn = "get_context" /\ MissingOrEmpty(p, "context_id")
               THEN /\ last'.resp = [error |-> "context_id parameter is required"]
                    /\ UNCHANGED <<contexts, context_stacks>>
               ELSE TRUE]_vars

\* C15's case: get_context with neither user_id nor context_id, answered
\* with the user_id error while the store holds contexts.
C15_Witness ==
    /\ last.fn = "get_context"
    /\ last.body.kind = "object"
    /\ DOMAIN last.body.params = {}
    /\ last.resp = [error |-> "user_id parameter is required"]
    /\ StoredContexts > 0

\* The payload members the result of each function carries.
PayloadOf(function_name) ==
    CASE function_name = "push_context" -> {"context_id"}
      [] function_name = "pop_context" -> {"context_id", "context"}
      [] function_name = "list_contexts" -> {"contexts"}
      [] function_name = "get_context" -> {"context_id", "context"}
      [] function_name = "clear_contexts" -> {}

\* C16: the result envelope of every successful call of the five functions
\* carries success: true together with its payload members.
C16_SuccessMarker ==
    (/\ last.fn \in {"push_context", "pop_context", "list_contexts",
                     "get_context", "clear_contexts"}
     /\ "error" \notin DOMAIN last.resp)
        => /\ Succeeded(last.resp)
           /\ PayloadOf(last.fn) \subseteq DOMAIN last.resp

\* The request fails in the state it is handled in: its body is not JSON or
\* not an object, its function is not one of the five, a required member is
\* missing, the context is null, the identifier is not among the user's
\* entries, or there is nothing to pop.
Fails(function_name, body) ==
    \/ body.kind \in {"invalid", "undecodable", "nonobject"}
    \/ function_name \notin {"push_context", "pop_context", "list_contexts",
                             "get_context", "clear_contexts"}
    \/ MissingOrEmpty(body.params, "user_id")
    \/ function_name = "push_context" /\ MissingOrEmpty(body.params, "context")
    \/ function_name = "get_context"
        /\ \/ MissingOrEmpty(body.params, "context_id")
           \/ body.params["user_id"] \notin DOMAIN contexts
           \/ body.params["context_id"] \notin DOMAIN contexts[body.params["user_id"]]
    \/ function_name = "pop_context" /\ StackLen(body.params["user_id"]) = 0

\* C17: every failing request is answered with an envelope whose error
\* member carries a message, and no envelope has both an error member and
\* success: true.
C17_FailuresAreEnvelopes ==
    [][/\ Fails(last'.fn, last'.body)
            => /\ "error" \in DOMAIN last'.resp
               /\ last'.resp.error # ""
       /\ ~("error" \in DOMAIN last'.resp /\ Succeeded(last'.resp))]_vars

\* C17's case: the exception parameters.get raises on a body that is a JSON
\* list, returned as an error envelope.
C17_Witness ==
    /\ last.fn = "push_context"
    /\ last.body.kind = "nonobject"
    /\ "error" \in DOMAIN last.resp

\* The headers of a request without any Authorization header, whatever the
\* case of its name.
WithoutAuthorization(wire) ==
    [n \in {m \in DOMAIN wire : Lower(m) # "authorization"} |-> wire[n]]

\* C18: the request the relay sends upstream has no Authorization header of
\* the caller, and it is the request the relay would have sent for any
\* inbound request that differs in its Authorization header only; the
\* relay-update relay sends its fixed credential and nothing else.
C18_AuthorizationNotForwarded ==
    relayed # NotRelayed
        => /\ \A k \in DOMAIN relayed.upstream.headers : Lower(k) # "authorization"
           /\ \A wire \in WireHeaders :
                WithoutAuthorization(wire) = WithoutAuthorization(relayed.inbound)
                    => UpstreamRequest(relayed.relay, relayed.endpoint,
                                       relayed.body, wire) = relayed.upstream
           /\ relayed.relay = "context7-relay-update"
                => relayed.upstream.auth = "instabids:secure123password"
           /\ relayed.relay = "context7-mcp-update"
                => relayed.upstream.auth = None

\* C18's case: a request with an Authorization header went through the
\* credential-injecting relay and reached the server.
C18_Witness ==
    /\ relayed # NotRelayed
    /\ relayed.relay = "context7-relay-update"
    /\ relayed.reached
    /\ "AUTHORIZATION" \in DOMAIN relayed.inbound
    /\ relayed.inbound["AUTHORIZATION"] = "Bearer t2"

\* C19: under every interleaving, a request that is about to run finds each
\* user's stack order holding exactly the identifiers of that user's entries.
C19_NoTornState ==
    (\E r \in Slots : inflight[r] # Idle)
        => \A u \in DOMAIN context_stacks :
              {context_stacks[u][i] : i \in 1..Len(context_stacks[u])}
                  = DOMAIN contexts[u]

\* The direct call returns before it reads the store: its body is not JSON
\* or the server has no such function.
ReturnsEarly(function_name, body) ==
    body.kind = "invalid" \/ function_name \notin FUNCTION_NAMES

EarlyResponse(function_name, body) ==
    IF body.kind = "invalid" THEN InvalidJsonError
    ELSE UnsupportedFunctionError(function_name)

\* C20: a request the relay forwards to a reachable server is answered with
\* the status and JSON of the direct call of the function named in the path
\* with the same body, and it changes the store as that call does.
C20_RelayTransparent ==
    [][(relayed' # relayed /\ relayed'.reached)
        => LET function_name == PathParameter(relayed'.endpoint)
               body == relayed'.body
           IN  /\ relayed'.status_code = 200
               /\ relayed'.content = last'.resp
               /\ \/ handle_mcp_request(function_name, body)
                  \/ /\ ReturnsEarly(function_name, body)
                     /\ last'.resp = EarlyResponse(function_name, body)
                     /\ UNCHANGED <<contexts, context_stacks>>]_vars

\* C21: a 5xx status that the relay produces itself, the server not having
\* answered, comes from a transport failure of the forwarding; and every
\* response of the relay on an error path is an envelope with an error
\* member and has the header Access-Control-Allow-Origin: *.
C21_RelayErrorsAreTransport ==
    relayed # NotRelayed
        => /\ (relayed.status_code >= 500 /\ ~relayed.reached)
                => relayed.raised = "httpx.RequestError"
           /\ relayed.raised # None
                => /\ "error" \in DOMAIN relayed.content
                   /\ "Access-Control-Allow-Origin" \in DOMAIN relayed.headers
                   /\ relayed.headers["Access-Control-Allow-Origin"] = "*"

\* C22: a body that is not valid JSON gets {error: "Invalid JSON in request
\* body"} whatever the function name, with the store unchanged; an empty body
\* gets the missing user_id error for each of the five functions.
C22_InvalidJsonRejected ==
    [][/\ last'.body.kind \in {"invalid", "undecodable"}
            => /\ last'.resp = [error |-> "Invalid JSON in request body"]
               /\ UNCHANGED <<contexts, context_stacks>>
       /\ (/\ last'.body.kind = "empty"
           /\ last'.fn \in {"push_context", "pop_context", "list_contexts",
                            "get_context", "clear_contexts"})
            => /\ last'.resp = [error |-> "user_id parameter is required"]
               /\ UNCHANGED <<contexts, context_stacks>>]_vars

\* C23: the set of known users only grows, and it grows only by the user of
\* a successful push_context: pop_context, list_contexts, get_context,
\* clear_contexts and every failed request leave it as it was.
C23_UsersOnlyAdded ==
    [][/\ DOMAIN contexts \subseteq DOMAIN contexts'
       /\ DOMAIN context_stacks \subseteq DOMAIN context_stacks'
       /\ (DOMAIN contexts' # DOMAIN contexts
              \/ DOMAIN context_stacks' # DOMAIN context_stacks)
            => /\ last'.fn = "push_context"
               /\ Succeeded(last'.resp)
               /\ DOMAIN contexts' = DOMAIN contexts \cup {UserOf(last'.body)}
               /\ DOMAIN context_stacks' = DOMAIN context_stacks \cup {UserOf(last'.body)}]_vars

\* C23's case: clear_contexts has emptied the state of a user who had
\* contexts, and the user is still known.
C23_Witness ==
    /\ last.fn = "clear_contexts"
    /\ Succeeded(last.resp)
    /\ last.before # <<>>
    /\ "u1" \in DOMAIN contexts
    /\ contexts["u1"] = EmptyDict
    /\ context_stacks["u1"] = <<>>

\* C24: a request answered with an error envelope leaves contexts and
\* context_stacks exactly as they were before it.
C24_ErrorsLeaveStore ==
    [][("error" \in DOMAIN last'.resp)
        => UNCHANGED <<contexts, context_stacks>>]_vars

\* C24's case: a get_context for an identifier the user does not have is
\* answered with an error while the store holds contexts.
C24_Witness ==
    /\ last.fn = "get_context"
    /\ "error" \in DOMAIN last.resp
    /\ "success" \in DOMAIN last.resp
    /\ StoredContexts > 0

\* C25: in every reachable state an identifier is in a user's list_contexts
\* result exactly when get_context finds it for that user, the listed context
\* is the one get_context returns and is not null, and a successful
\* pop_context has not returned a null context.
C25_ReadsAgree ==
    /\ \A u \in Users, context_id \in ContextIds :
          /\ context_id \in IdsOf(ListContexts(u)) <=> ~ContextMissing(u, context_id)
          /\ \A i \in 1..Len(ListContexts(u)) :
                ListContexts(u)[i].context_id = context_id
                    => /\ ListContexts(u)[i].context # None
                       /\ ~ContextMissing(u, context_id)
                       /\ ListContexts(u)[i].context = contexts[u][context_id]
    /\ (Called("pop_context") /\ Succeeded(last.resp)) => last.resp.context # None

\* The response is one of the handler's envelopes.
Envelope(response) ==
    \/ "error" \in DOMAIN response
    \/ "success" \in DOMAIN response
    \/ "contexts" \in DOMAIN response

\* C26: every request in flight is eventually answered, whatever else is in
\* flight; a step answers at most one request, with one envelope for that
\* request, and no step answers a request that is not in flight.
C26_EveryRequestCompletes ==
    /\ \A r \in Slots : (inflight[r] # Idle) ~> (inflight[r] = Idle)
    /\ [][LET done == {r \in Slots : inflight[r] # Idle /\ inflight'[r] = Idle}
          IN  IF done = {} THEN last' = last
              ELSE /\ Cardinality(done) = 1
                   /\ \A r \in done :
                        /\ last'.fn = inflight[r].fn
                        /\ last'.body = inflight[r].body
                        /\ Envelope(last'.resp)]_vars

\* C26's case: every slot holds a request in flight while earlier requests
\* have been answered.
C26_Witness ==
    /\ \A r \in Slots : inflight[r] # Idle
    /\ last.fn # "none"
    /\ StoredContexts > 0

\* C27: in every reachable state contexts and context_stacks have the same
\* user keys, so a user found in context_stacks can be indexed in contexts.
C27_SameUserKeys ==
    /\ DOMAIN contexts = DOMAIN context_stacks
    /\ \A u \in DOMAIN context_stacks : u \in DOMAIN contexts

\* C27's case: one user is known to both maps after pushes that returned
\* two identifiers and a pop, and the other user is known to neither.
C27_Witness ==
    /\ last.fn = "pop_context"
    /\ Succeeded(last.resp)
    /\ DOMAIN contexts = {"u1"}
    /\ DOMAIN context_stacks = {"u1"}
    /\ Cardinality(minted["u1"]) = 2

====
